---- MODULE Spec2Model ----
(***************************************************************************)
(* Model of the sign-up form validation of five-minutes-demo:              *)
(*   - src/types/index.ts : the io-ts codecs (leaf brands with messages,   *)
(*     intersections, the SignUpForm record type);                         *)
(*   - src/unnamed/part_000 : errorsToFormErrors and the useForm hook      *)
(*     (state, formErrors, refs, validate, reset, the field handlers).     *)
(*                                                                         *)
(* io-ts semantics used by the codecs (t.string, t.boolean, t.brand,       *)
(* t.intersection, t.type, withMessage) are modelled as the library        *)
(* computes them: every codec validates a value under a context (the path  *)
(* of keys from the root) and yields a list of failures, empty on success. *)
(***************************************************************************)
EXTENDS Integers, Sequences, FiniteSets, TLC

(***************************************************************************)
(* Raw values.  A JavaScript value is abstracted to what the codecs read:  *)
(* its runtime type, and for a string its length, the number of leading    *)
(* and trailing whitespace characters (so s.trim().length = len - ws), and *)
(* the verdict of the validator predicates isEmail / isMobilePhone (fmt).  *)
(* For a boolean, checked is its value.                                    *)
(***************************************************************************)
Max64 == 64
Max512 == 512
Min4 == 4

Str(len, ws, fmt) ==
  [type |-> "string", len |-> len, ws |-> ws, fmt |-> fmt, checked |-> FALSE]

Bool(b) ==
  [type |-> "boolean", len |-> 0, ws |-> 0, fmt |-> "plain", checked |-> b]

\* A non-string, non-boolean value such as the number 123.
Num == [type |-> "number", len |-> 0, ws |-> 0, fmt |-> "plain", checked |-> FALSE]

\* Sample lengths around every length limit of the codecs.
Lens == {0, Min4 - 1, Min4, Max64, Max64 + 1, Max512, Max512 + 1}

\* Sample numbers of leading and trailing whitespace characters.
WsSamples == {0, 1}

Fmts == {"plain", "email", "phone"}

\* The sample strings.  A string that isEmail or isMobilePhone accepts has
\* no surrounding whitespace, is a few characters long at least and is far
\* shorter than 512 characters.
TextValues ==
  {v \in {Str(l, w, f) : l \in Lens, w \in WsSamples, f \in Fmts} :
      /\ v.ws <= v.len
      /\ v.fmt # "plain" => (v.ws = 0 /\ v.len >= Min4 /\ v.len <= Max64 + 1)}

BoolValues == {Bool(TRUE), Bool(FALSE)}

Values == TextValues \cup BoolValues \cup {Num}

(***************************************************************************)
(* The message catalog.                                                    *)
(***************************************************************************)
validationErrors ==
  [TypeString |-> "Invalid string type.",
   NonEmptyString |-> "Can not be empty.",
   TrimmedString |-> "Please remove leading and trailing whitespaces.",
   TooLong |-> "Too long.",
   TooShort |-> "Too short.",
   EmailString |-> "Email is not valid.",
   PhoneString |-> "Invalid phone number."]

\* The message of a failure of a codec that is not wrapped in withMessage
\* (t.boolean): io-ts leaves error.message undefined.
Undefined == "undefined"

(***************************************************************************)
(* Codecs.  A leaf is a named check; an intersection is the ordered list   *)
(* of its members.                                                         *)
(***************************************************************************)
Leaf(name) == [tag |-> "leaf", name |-> name, types |-> <<>>]

TypeString == Leaf("TypeString")
NonEmptyString == Leaf("NonEmptyString")
TrimmedString == Leaf("TrimmedString")
Max64String == Leaf("Max64String")
Max512String == Leaf("Max512String")
Min4String == Leaf("Min4String")
EmailString == Leaf("EmailString")
PhoneString == Leaf("PhoneString")
boolean == Leaf("boolean")

\* t.intersection(types)
intersection(types) == [tag |-> "intersection", name |-> "", types |-> types]

\* The type guard and refinement predicate of each leaf: t.string.is for
\* TypeString, t.boolean.is for boolean, and for a brand t.string.is followed
\* by the brand's predicate (the predicate only runs on a string).
LeafIs(name, u) ==
  CASE name = "TypeString" -> u.type = "string"
    [] name = "boolean" -> u.type = "boolean"
    [] name = "NonEmptyString" -> u.type = "string" /\ u.len > 0
    [] name = "TrimmedString" -> u.type = "string" /\ u.len - u.ws = u.len
    [] name = "Max64String" -> u.type = "string" /\ u.len <= Max64
    [] name = "Max512String" -> u.type = "string" /\ u.len <= Max512
    [] name = "Min4String" -> u.type = "string" /\ u.len >= Min4
    [] name = "EmailString" -> u.type = "string" /\ u.fmt = "email"
    [] name = "PhoneString" -> u.type = "string" /\ u.fmt = "phone"

\* The message withMessage attaches to each leaf.
LeafMessage(name) ==
  CASE name = "TypeString" -> validationErrors.TypeString
    [] name = "NonEmptyString" -> validationErrors.NonEmptyString
    [] name = "TrimmedString" -> validationErrors.TrimmedString
    [] name = "Max64String" -> validationErrors.TooLong
    [] name = "Max512String" -> validationErrors.TooLong
    [] name = "Min4String" -> validationErrors.TooShort
    [] name = "EmailString" -> validationErrors.EmailString
    [] name = "PhoneString" -> validationErrors.PhoneString
    [] name = "boolean" -> Undefined

\* A validation error: the context (keys from the root to the failing
\* codec) and the message.
Failure(c, message) == [context |-> c, message |-> message]

\* validate of a leaf under context c: withMessage replaces whatever the
\* wrapped codec reports by one failure at c carrying the leaf's message.
LeafValidate(name, u, c) ==
  IF LeafIs(name, u) THEN <<>> ELSE <<Failure(c, LeafMessage(name))>>

\* validate of any codec.  t.intersection validates the value against every
\* member in declared order, member i under the context extended by the key
\* String(i), and concatenates the failures of all members.
RECURSIVE validate(_, _, _)
RECURSIVE validateMembers(_, _, _, _)
RECURSIVE validateMembersShortCircuit(_, _, _, _)

\* An intersection that stops at its first failing member.
validateMembersShortCircuit(types, i, u, c) ==
  IF i > Len(types) THEN <<>>
  ELSE LET errors == validate(types[i], u, Append(c, ToString(i - 1)))
       IN IF errors # <<>> THEN errors
          ELSE validateMembersShortCircuit(types, i + 1, u, c)

validateMembers(types, i, u, c) ==
  IF i > Len(types) THEN <<>>
  ELSE validate(types[i], u, Append(c, ToString(i - 1)))
         \o validateMembers(types, i + 1, u, c)

validate(codec, u, c) ==
  IF codec.tag = "leaf" THEN LeafValidate(codec.name, u, c)
  ELSE validateMembers(codec.types, 1, u, c)

\* codec.is(u), the type guard: the guard of a leaf, and for an intersection
\* the guards of all its members.
RECURSIVE is(_, _)
is(codec, u) ==
  IF codec.tag = "leaf" THEN LeafIs(codec.name, u)
  ELSE \A i \in 1..Len(codec.types) : is(codec.types[i], u)

(***************************************************************************)
(* The composed types of src/types/index.ts.                               *)
(***************************************************************************)
NonEmptyTrimmedString == intersection(<<TypeString, NonEmptyString, TrimmedString>>)
String64 == intersection(<<NonEmptyTrimmedString, Max64String>>)
String512 == intersection(<<NonEmptyTrimmedString, Max512String>>)
\* An Email that checks the format before String64.
EmailFormatFirst == intersection(<<EmailString, String64>>)
Email == intersection(<<String64, EmailString>>)
Password == intersection(<<String512, Min4String>>)
Phone == intersection(<<NonEmptyTrimmedString, PhoneString>>)

\* Object.keys(SignUpForm.props), in declaration order.
Keys == <<"company", "email", "password", "phone", "sendNewsletter">>

KeySet == {Keys[i] : i \in 1..Len(Keys)}

\* SignUpForm.props
Props ==
  [company |-> String64, email |-> Email, password |-> Password,
   phone |-> Phone, sendNewsletter |-> boolean]

\* Either: decode yields Left(errors) or Right(value).
Left(e) == [tag |-> "Left", left |-> e, right |-> <<>>]
Right(a) == [tag |-> "Right", left |-> <<>>, right |-> a]

\* codec.decode(u) of one of the codecs above: validate under the root
\* context (key ''); a brand only narrows the static type, so the decoded
\* value is the input.
decode(codec, u) ==
  LET errors == validate(codec, u, <<"">>)
  IN IF errors = <<>> THEN Right(u) ELSE Left(errors)

\* validate of t.type(props) on a record: every property in key order,
\* property k under the context extended by k; failures of all properties
\* are concatenated.
RECURSIVE validateProps(_, _, _)
validateProps(i, a, c) ==
  IF i > Len(Keys) THEN <<>>
  ELSE validate(Props[Keys[i]], a[Keys[i]], Append(c, Keys[i]))
         \o validateProps(i + 1, a, c)

\* SignUpForm.decode(a)
decodeForm(a) ==
  LET errors == validateProps(1, a, <<"">>)
  IN IF errors = <<>> THEN Right(a) ELSE Left(errors)

(***************************************************************************)
(* errorsToFormErrors.  A FormErrors object is modelled as the sequence of *)
(* its entries in insertion order (the order Object.keys reports).         *)
(***************************************************************************)
EmptyFormErrors == <<>>

\* key in acc
HasKey(acc, key) == \E i \in 1..Len(acc) : acc[i].key = key

\* Object.keys(formErrors), as a set
KeysOf(acc) == {acc[i].key : i \in 1..Len(acc)}

\* formErrors[key]
Lookup(acc, key) == acc[CHOOSE i \in 1..Len(acc) : acc[i].key = key].message

\* { ...acc, [key]: message }: an existing key keeps its place and takes the
\* new message, a new key is added last.
Spread(acc, key, message) ==
  IF HasKey(acc, key)
  THEN [i \in 1..Len(acc) |->
          IF acc[i].key = key THEN [key |-> key, message |-> message] ELSE acc[i]]
  ELSE Append(acc, [key |-> key, message |-> message])

\* The reducer with the `key in acc` test left out: the last failure of a
\* field wins.
reducerLastWins(acc, error) == Spread(acc, error.context[2], error.message)

\* The reducer keyed by the root context entry instead of the field's.
reducerRootKey(acc, error) ==
  LET key == error.context[1]
  IN IF HasKey(acc, key) THEN acc ELSE Spread(acc, key, error.message)

\* The reducer of errorsToFormErrors.  error.context[1] of the source is the
\* second context entry, the one of the field.
reducer(acc, error) ==
  LET key == error.context[2]
  IN IF HasKey(acc, key) THEN acc ELSE Spread(acc, key, error.message)

RECURSIVE reduceFrom(_, _, _)
reduceFrom(errors, i, acc) ==
  IF i > Len(errors) THEN acc ELSE reduceFrom(errors, i + 1, reducer(acc, errors[i]))

errorsToFormErrors(errors) == reduceFrom(errors, 1, EmptyFormErrors)

(***************************************************************************)
(* The useForm hook.                                                       *)
(*                                                                         *)
(* state and formErrors are the values of the two useState cells as of the *)
(* last render; every handler the hook returns (validate, reset, the       *)
(* fields' onChange and onKeyPress) is a closure over them.  setState and  *)
(* setFormErrors do not change them: they queue an update that React       *)
(* applies when it renders next.  Every update of the source is a plain    *)
(* value, so of the updates queued between two renders the last one wins,  *)
(* and the queue is modelled by its last element.                          *)
(***************************************************************************)
VARIABLES
  initialStateRef,  \* initialStateRef.current
  state,            \* useState(initialState), as rendered
  formErrors,       \* useState({}), as rendered
  stateUpdate,      \* queued setState: <<>> or <<value>>
  errorsUpdate,     \* queued setFormErrors: <<>> or <<formErrors>>
  refs,             \* the fields whose ref.current is a mounted element,
                    \* in document order; <<>> while nothing is mounted
  focused,          \* the field focus() was called on by the last validate
  returned,         \* what the last validate() call gave its caller
  applied,          \* history: initialState with every edit and reset so far
                    \* applied in the order of the calls
  lastChange,       \* history: the last edit or reset call: "none", "edit"
                    \* or "reset"
  validated,        \* history: <<formErrors set, Either tag>> of the last
                    \* validate() if no edit or reset was called since,
                    \* else <<>>
  calls,            \* history: the number of handler calls so far
  keyed,            \* history: the last handler call was an Enter key press
  probe             \* the codec harness (see SpecDecode)

vars ==
  <<initialStateRef, state, formErrors, stateUpdate, errorsUpdate, refs,
    focused, returned, applied, lastChange, validated, calls, keyed, probe>>

\* Bound on the number of handler calls of a run.
MaxCalls == 3

Empty == Str(0, 0, "plain")

\* The strings typed into the text inputs: nothing, an e-mail address and a
\* mobile phone number.
Typed == {Empty, Str(Min4, 0, "email"), Str(Min4, 0, "phone")}

\* The initial value of the sign-up form, and the one of a form that is
\* filled in but for the phone number.
InitialStates ==
  {[company |-> Empty, email |-> Empty, password |-> Empty, phone |-> Empty,
    sendNewsletter |-> Bool(FALSE)],
   [company |-> Str(Min4, 0, "plain"), email |-> Str(Min4, 0, "email"),
    password |-> Str(Min4, 0, "plain"), phone |-> Empty,
    sendNewsletter |-> Bool(FALSE)]}

\* The document orders in which a host lays the inputs out.
Reverse(s) == [i \in 1..Len(s) |-> s[Len(s) + 1 - i]]
DocOrders == {Keys, Reverse(Keys)}

NoReturn == [tag |-> "none", left |-> <<>>, right |-> <<>>]
TypeError == [tag |-> "TypeError", left |-> <<>>, right |-> <<>>]
NoProbe == [codec |-> "none"]

Init ==
  /\ initialStateRef \in InitialStates
  /\ state = initialStateRef
  /\ formErrors = EmptyFormErrors
  /\ stateUpdate = <<>>
  /\ errorsUpdate = <<>>
  /\ refs = <<>>
  /\ focused = "none"
  /\ returned = NoReturn
  /\ applied = initialStateRef
  /\ lastChange = "none"
  /\ validated = <<>>
  /\ calls = 0
  /\ keyed = FALSE
  /\ probe = NoProbe

\* TextInputField.types: the codecs createProps gives text-input props.
TextInputFieldTypes == {String64, Email, Password, Phone}

\* CheckboxField
CheckboxField == boolean

\* A codec that accepts values and strings only.
StringBased(type) ==
  /\ \E u \in Values : is(type, u)
  /\ \A u \in Values : is(type, u) => u.type = "string"

\* A dispatch on what the codec accepts: text-input props for every codec
\* of strings.
createPropsStructural(type) ==
  IF StringBased(type) THEN "text"
  ELSE IF type = CheckboxField THEN "checkbox"
  ELSE "none"

\* createProps(key, type), by the type: the kind of props it gives.
\* (TextInputField.types as t.Mixed[]).includes(type), type === CheckboxField
createPropsOf(type) ==
  IF type \in TextInputFieldTypes THEN "text"
  ELSE IF type = CheckboxField THEN "checkbox"
  ELSE "none"

\* createProps(key, type) of a field of the schema.
createProps(key) == createPropsOf(Props[key])

\* The props createTextInputProps and createCheckboxProps return, and the
\* empty object of the default case.
propNames(kind) ==
  IF kind = "text" THEN {"value", "onChange", "onKeyPress", "ref"}
  ELSE IF kind = "checkbox" THEN {"isChecked", "onChange", "ref"}
  ELSE {}

\* isDOMElement(refsRef.current[key].current)
Mounted(key) == \E i \in 1..Len(refs) : refs[i] = key

\* The place of a mounted field's element in the document.
DocPos(key) == CHOOSE i \in 1..Len(refs) : refs[i] = key

\* A focus that takes the first key of formErrors instead of the first
\* element of the document.
focusFirstKey(fe) ==
  IF Len(fe) >= 2 /\ \E k \in KeysOf(fe) : ~Mounted(k)
  THEN [threw |-> TRUE, target |-> "none"]
  ELSE [threw |-> FALSE, target |-> IF Mounted(fe[1].key) THEN fe[1].key ELSE "none"]

\* focusFirstInvalidField(fe): whether it throws, and the field it focuses.
\* The comparator of sort evaluates 'nodeType' in a for the current of both
\* refs it is handed: with a ref whose current is undefined that is a
\* TypeError.  sort calls the comparator when there are two refs or more,
\* and every ref then takes part in a comparison.  With every element
\* mounted the comparator orders by document position.
focusFirstInvalidField(fe) ==
  IF Len(fe) >= 2 /\ \E k \in KeysOf(fe) : ~Mounted(k)
  THEN [threw |-> TRUE, target |-> "none"]
  ELSE IF Len(fe) = 1
  THEN [threw |-> FALSE, target |-> IF Mounted(fe[1].key) THEN fe[1].key ELSE "none"]
  ELSE [threw |-> FALSE,
        target |-> CHOOSE k \in KeysOf(fe) :
                     \A j \in KeysOf(fe) : DocPos(k) <= DocPos(j)]

\* A validate() that returns, on failure, the projected formErrors in place
\* of the failures of the decode.
ValidateBodyReturningFormErrors ==
  LET result == decodeForm(state)
      fe == errorsToFormErrors(result.left)
      focus == focusFirstInvalidField(fe)
  IN IF result.tag = "Left"
     THEN /\ errorsUpdate' = <<fe>>
          /\ focused' = focus.target
          /\ returned' = IF focus.threw THEN TypeError ELSE Left(fe)
          /\ validated' = <<fe, result.tag>>
     ELSE /\ errorsUpdate' = <<EmptyFormErrors>>
          /\ focused' = "none"
          /\ returned' = result
          /\ validated' = <<EmptyFormErrors, result.tag>>

\* The body of validate(): decode the rendered state; on Left, onFail
\* queues the projected errors and then focuses (which may throw, after the
\* update was queued); on Right, onSuccess queues the empty object; the
\* decode result is returned.
ValidateBody ==
  LET result == decodeForm(state)
      fe == errorsToFormErrors(result.left)
      focus == focusFirstInvalidField(fe)
  IN IF result.tag = "Left"
     THEN /\ errorsUpdate' = <<fe>>
          /\ focused' = focus.target
          /\ returned' = IF focus.threw THEN TypeError ELSE result
          /\ validated' = <<fe, result.tag>>
     ELSE /\ errorsUpdate' = <<EmptyFormErrors>>
          /\ focused' = "none"
          /\ returned' = result
          /\ validated' = <<EmptyFormErrors, result.tag>>

Called ==
  /\ calls < MaxCalls
  /\ calls' = calls + 1

\* A validate() that writes the decoded value back into the state.
ValidateWritingBack ==
  /\ Called
  /\ ValidateBody
  /\ keyed' = FALSE
  /\ stateUpdate' =
       IF decodeForm(state).tag = "Right" THEN <<decodeForm(state).right>>
       ELSE stateUpdate
  /\ UNCHANGED <<initialStateRef, state, formErrors, refs, applied, lastChange, probe>>

\* validate()
Validate ==
  /\ Called
  /\ ValidateBody
  /\ keyed' = FALSE
  /\ UNCHANGED <<initialStateRef, state, formErrors, stateUpdate, refs, applied,
                 lastChange, probe>>

\* A reset that also clears the errors.
ResetClearingErrors ==
  /\ Called
  /\ stateUpdate' = <<initialStateRef>>
  /\ errorsUpdate' = <<EmptyFormErrors>>
  /\ applied' = initialStateRef
  /\ lastChange' = "reset"
  /\ validated' = <<>>
  /\ keyed' = FALSE
  /\ UNCHANGED <<initialStateRef, state, formErrors, refs, focused, returned, probe>>

\* reset()
Reset ==
  /\ Called
  /\ stateUpdate' = <<initialStateRef>>
  /\ applied' = initialStateRef
  /\ lastChange' = "reset"
  /\ validated' = <<>>
  /\ keyed' = FALSE
  /\ UNCHANGED <<initialStateRef, state, formErrors, errorsUpdate, refs, focused,
                 returned, probe>>

\* The value setState is handed by onChange: { ...state, [key]: value }
\* with the state of the render the handler was created in.
Edited(key, value) == [state EXCEPT ![key] = value]

\* onChange of a text input or of a checkbox
Edit(key, value) ==
  /\ Called
  /\ stateUpdate' = <<Edited(key, value)>>
  /\ applied' = [applied EXCEPT ![key] = value]
  /\ lastChange' = "edit"
  /\ validated' = <<>>
  /\ keyed' = FALSE
  /\ UNCHANGED <<initialStateRef, state, formErrors, errorsUpdate, refs, focused,
                 returned, probe>>

\* The fields with text-input props, and those with checkbox props.
TextKeys == {key \in KeySet : createProps(key) = "text"}
CheckboxKeys == {key \in KeySet : createProps(key) = "checkbox"}

TextChange == \E key \in TextKeys, v \in Typed : Edit(key, v)

CheckboxChange == \E key \in CheckboxKeys, v \in BoolValues : Edit(key, v)

PressedKeys == {"Enter", "a"}

\* A key handler that validates whatever the key.
onKeyPressAnyKey(pressed) ==
  /\ Called
  /\ ValidateBody
  /\ keyed' = TRUE
  /\ UNCHANGED <<initialStateRef, state, formErrors, stateUpdate, refs, applied,
                 lastChange, probe>>

\* onKeyPress(event) of a text input: if (event.key === 'Enter') validate()
onKeyPress(pressed) ==
  IF pressed = "Enter"
  THEN /\ Called
       /\ ValidateBody
       /\ keyed' = TRUE
       /\ UNCHANGED <<initialStateRef, state, formErrors, stateUpdate, refs, applied,
                      lastChange, probe>>
  ELSE UNCHANGED vars

\* A key is pressed in a text input: the handler is the same for every
\* text input, it reads the pressed key only.
KeyPress ==
  \E pressed \in PressedKeys :
    /\ TextKeys # {}
    /\ onKeyPress(pressed)

\* fields[key].isInvalid
isInvalid(key) == HasKey(formErrors, key)

\* An error without the default: formErrors[key], undefined for a field
\* that is not a key of formErrors.
fieldErrorNoDefault(key) ==
  IF HasKey(formErrors, key) THEN Lookup(formErrors, key) ELSE Undefined

\* fields[key].error: formErrors[key] || ''
fieldError(key) ==
  IF HasKey(formErrors, key) /\ Lookup(formErrors, key) \notin {Undefined, ""}
  THEN Lookup(formErrors, key)
  ELSE ""

\* React renders: the queued updates become the rendered state, and the
\* handlers are created anew over it.
Render ==
  /\ stateUpdate # <<>> \/ errorsUpdate # <<>>
  /\ state' = IF stateUpdate # <<>> THEN stateUpdate[1] ELSE state
  /\ formErrors' = IF errorsUpdate # <<>> THEN errorsUpdate[1] ELSE formErrors
  /\ stateUpdate' = <<>>
  /\ errorsUpdate' = <<>>
  /\ UNCHANGED <<initialStateRef, refs, focused, returned, applied, lastChange,
                 validated, calls, keyed, probe>>

\* The host commits the inputs it renders with the fields' refs.
Mount ==
  /\ refs = <<>>
  /\ refs' \in DocOrders
  /\ UNCHANGED <<initialStateRef, state, formErrors, stateUpdate, errorsUpdate,
                 focused, returned, applied, lastChange, validated, calls, keyed,
                 probe>>

(***************************************************************************)
(* The codec harness: a codec of src/types/index.ts is handed a value, or  *)
(* SignUpForm a record, decode is applied, and the failures of a failed    *)
(* SignUpForm decode are projected by errorsToFormErrors.                  *)
(***************************************************************************)
Codecs ==
  [TypeString |-> TypeString, NonEmptyString |-> NonEmptyString,
   TrimmedString |-> TrimmedString, Max64String |-> Max64String,
   Max512String |-> Max512String, Min4String |-> Min4String,
   EmailString |-> EmailString, PhoneString |-> PhoneString,
   NonEmptyTrimmedString |-> NonEmptyTrimmedString,
   String64 |-> String64, String512 |-> String512, Email |-> Email,
   Password |-> Password, Phone |-> Phone, boolean |-> boolean]

\* The values the harness puts into the fields of a record.
ProbeValues ==
  {Num, Empty, Str(Min4, 0, "email"), Str(Min4, 0, "phone"),
   Str(Max64 + 1, 1, "plain"), Bool(TRUE)}

ProbeForms == [KeySet -> ProbeValues]

NoProps == [kind |-> "unset", names |-> {}]

Probe(codec, u) ==
  [codec |-> codec, u |-> u, result |-> NoReturn, formErrors |-> <<>>,
   projected |-> FALSE, props |-> NoProps]

ProbeInit ==
  \/ \E name \in DOMAIN Codecs, u \in Values : probe = Probe(name, u)
  \/ \E a \in ProbeForms : probe = Probe("SignUpForm", a)

DecodeInit ==
  /\ initialStateRef \in InitialStates
  /\ state = initialStateRef
  /\ formErrors = EmptyFormErrors
  /\ stateUpdate = <<>>
  /\ errorsUpdate = <<>>
  /\ refs = <<>>
  /\ focused = "none"
  /\ returned = NoReturn
  /\ applied = initialStateRef
  /\ lastChange = "none"
  /\ validated = <<>>
  /\ calls = 0
  /\ keyed = FALSE
  /\ ProbeInit

ControllerUnchanged ==
  UNCHANGED <<initialStateRef, state, formErrors, stateUpdate, errorsUpdate, refs,
              focused, returned, applied, lastChange, validated, calls, keyed>>

\* codec.decode(u)
ProbeDecode ==
  /\ probe.codec # "SignUpForm"
  /\ probe.result = NoReturn
  /\ probe' = [probe EXCEPT !.result = decode(Codecs[probe.codec], probe.u)]
  /\ ControllerUnchanged

\* SignUpForm.decode(a)
ProbeDecodeForm ==
  /\ probe.codec = "SignUpForm"
  /\ probe.result = NoReturn
  /\ probe' = [probe EXCEPT !.result = decodeForm(probe.u)]
  /\ ControllerUnchanged

\* errorsToFormErrors(errors) on the failures of a failed decode
ProbeProject ==
  /\ probe.codec = "SignUpForm"
  /\ probe.result.tag = "Left"
  /\ ~probe.projected
  /\ probe' = [probe EXCEPT !.formErrors = errorsToFormErrors(probe.result.left),
                            !.projected = TRUE]
  /\ ControllerUnchanged

\* createProps(key, type) for a field of the codec's type
ProbeCreateProps ==
  /\ probe.codec # "SignUpForm"
  /\ probe.props = NoProps
  /\ probe' = [probe EXCEPT !.props =
                 [kind |-> createPropsOf(Codecs[probe.codec]),
                  names |-> propNames(createPropsOf(Codecs[probe.codec]))]]
  /\ ControllerUnchanged

DecodeNext ==
  \/ ProbeDecode
  \/ ProbeDecodeForm
  \/ ProbeProject
  \/ ProbeCreateProps

SpecDecode == DecodeInit /\ [][DecodeNext]_vars

Next ==
  \/ Validate
  \/ Reset
  \/ TextChange
  \/ CheckboxChange
  \/ KeyPress
  \/ Render
  \/ Mount

Spec == Init /\ [][Next]_vars

(***************************************************************************)
(* Properties.                                                             *)
(***************************************************************************)

\* The field a failure belongs to: the first path segment below the root.
FieldOf(error) == error.context[2]

\* The index of the earliest failure of a field in a failure list.
Earliest(errors, key) ==
  CHOOSE i \in 1..Len(errors) :
    /\ FieldOf(errors[i]) = key
    /\ \A j \in 1..(i - 1) : FieldOf(errors[j]) # key

\* No key occurs twice in a FormErrors object.
OneMessagePerField(fe) ==
  \A i, j \in 1..Len(fe) : fe[i].key = fe[j].key => i = j

\* C1: for the failure list of every failed SignUpForm decode,
\* errorsToFormErrors yields at most one message per field name; its keys are
\* exactly the field names that are the first path segment of some failure,
\* and each key maps to the message of the earliest failure of that field.
C1_FirstFailurePerField ==
  (probe.codec = "SignUpForm" /\ probe.projected) =>
    LET errors == probe.result.left
        fe == probe.formErrors
    IN /\ OneMessagePerField(fe)
       /\ KeysOf(fe) = {FieldOf(errors[i]) : i \in 1..Len(errors)}
       /\ \A key \in KeysOf(fe) :
            Lookup(fe, key) = errors[Earliest(errors, key)].message

\* A projected failure list in which one field has two failures with
\* different messages and another field fails too.
C1_Witness ==
  /\ probe.codec = "SignUpForm"
  /\ probe.projected
  /\ \E i, j \in 1..Len(probe.result.left) :
       /\ i < j
       /\ FieldOf(probe.result.left[i]) = FieldOf(probe.result.left[j])
       /\ probe.result.left[i].message # probe.result.left[j].message
  /\ Cardinality(KeysOf(probe.formErrors)) >= 2

\* The leaves of a codec in declared order.
RECURSIVE Flatten(_)
RECURSIVE FlattenFrom(_, _)
FlattenFrom(types, i) ==
  IF i > Len(types) THEN <<>> ELSE Flatten(types[i]) \o FlattenFrom(types, i + 1)

Flatten(codec) ==
  IF codec.tag = "leaf" THEN <<codec>> ELSE FlattenFrom(codec.types, 1)

Messages(errors) == [i \in 1..Len(errors) |-> errors[i].message]

\* The messages of the leaves of a codec that reject u, in declared order.
RejectingMessages(codec, u) ==
  LET rejecting == SelectSeq(Flatten(codec), LAMBDA l : ~LeafIs(l.name, u))
  IN [i \in 1..Len(rejecting) |-> LeafMessage(rejecting[i].name)]

ProbedCodec == probe.codec # "SignUpForm" /\ probe.result # NoReturn

\* C5 as stated: decoding a non-string value with the intersection
\* [TypeString, NonEmptyString, TrimmedString] yields exactly one failure,
\* carrying TypeString's message.
C5_ShortCircuit ==
  (ProbedCodec /\ probe.codec = "NonEmptyTrimmedString" /\ probe.u.type # "string") =>
    /\ Len(probe.result.left) = 1
    /\ probe.result.left[1].message = validationErrors.TypeString

\* C5 amended: an intersection validates every member in declared order and
\* reports the failures of all rejecting members in that order, so the first
\* failure is the one of the first rejecting member; a non-string value
\* decoded with [TypeString, NonEmptyString, TrimmedString] yields three
\* failures, TypeString's first.
C5_AllMembersInOrder ==
  ProbedCodec =>
    /\ Messages(probe.result.left) = RejectingMessages(Codecs[probe.codec], probe.u)
    /\ (probe.codec = "NonEmptyTrimmedString" /\ probe.u.type # "string") =>
         Messages(probe.result.left) =
           <<validationErrors.TypeString, validationErrors.NonEmptyString,
             validationErrors.TrimmedString>>

\* The number 123 decoded with NonEmptyTrimmedString.
C5_Witness ==
  /\ ProbedCodec
  /\ probe.codec = "NonEmptyTrimmedString"
  /\ probe.u = Num
  /\ probe.result.tag = "Left"

(***************************************************************************)
(* Properties of the controller.                                           *)
(***************************************************************************)

\* The initial value of the sign-up form.
SignUpInitial ==
  [company |-> Empty, email |-> Empty, password |-> Empty, phone |-> Empty,
   sendNewsletter |-> Bool(FALSE)]

\* The fields of a value that their constraints reject.
Rejected(a) == {key \in KeySet : ~is(Props[key], a[key])}

\* A step that is a validate() call (validate itself, or Enter in a text
\* input), and a step that is an edit or a reset call.
ValidateStep == calls' = calls + 1 /\ validated' # <<>>
ChangeStep == calls' = calls + 1 /\ validated' = <<>>

\* The step's validate() gave what decoding the value a gives: the same
\* formErrors, and the same Either unless focusing threw.
ValidatedAs(a) ==
  /\ errorsUpdate' = <<errorsToFormErrors(decodeForm(a).left)>>
  /\ validated'[2] = decodeForm(a).tag
  /\ returned' \in {decodeForm(a), TypeError}

\* C2: the formErrors a validate() call sets has exactly the fields as keys
\* whose validated value the field's constraint rejects, each once, whatever
\* the number of failures per field and whatever formErrors held before.
C2_KeysAreRejectedFields ==
  errorsUpdate # <<>> =>
    /\ OneMessagePerField(errorsUpdate[1])
    /\ KeysOf(errorsUpdate[1]) = Rejected(state)

\* validate() ran over a value with a rejected and an accepted text field,
\* the rejected one failing two leaves, while formErrors held other keys.
C2_Witness ==
  /\ errorsUpdate # <<>>
  /\ state.email = Empty
  /\ is(Phone, state.phone)
  /\ formErrors # <<>>
  /\ KeysOf(formErrors) # KeysOf(errorsUpdate[1])

\* C3: with the sign-up schema and its all-empty initial value, a validate()
\* before any edit sets formErrors to company, email, password and phone,
\* each with the NonEmptyString message, and no key for sendNewsletter.
C3_InitialValidate ==
  (initialStateRef = SignUpInitial /\ lastChange = "none" /\ errorsUpdate # <<>>) =>
    /\ KeysOf(errorsUpdate[1]) = {"company", "email", "password", "phone"}
    /\ \A key \in KeysOf(errorsUpdate[1]) :
         Lookup(errorsUpdate[1], key) = validationErrors.NonEmptyString
    /\ OneMessagePerField(errorsUpdate[1])

C3_Witness ==
  /\ initialStateRef = SignUpInitial
  /\ lastChange = "none"
  /\ calls = 1
  /\ errorsUpdate # <<>>

\* C4: once every field has been edited to a value its constraint accepts,
\* the next validate() returns the decoded success value and sets formErrors
\* to the empty object.
C4_SuccessAfterEdits ==
  [][(ValidateStep /\ Rejected(applied) = {}) =>
       /\ returned' = Right(applied)
       /\ errorsUpdate' = <<EmptyFormErrors>>]_vars

\* C6: the value validate() decodes is the initial value with all earlier
\* edits and resets applied in the order of the calls.
C6_ValidateSeesEarlierEdits == [][ValidateStep => ValidatedAs(applied)]_vars

\* currentValue: the state as React will render it next.
CurrentValue == IF stateUpdate # <<>> THEN stateUpdate[1] ELSE state

\* C7: after any sequence of edits every field holds the value of the most
\* recent edit addressed to it, or its initial value if it was not edited
\* since the last reset.
C7_EditsKeepOtherFields == CurrentValue = applied

\* C8: initialValue never changes, reset() sets currentValue to it, and a
\* validate() that follows a reset (no edit in between) decodes it.
C8_ValidateAfterReset ==
  [][/\ initialStateRef' = initialStateRef
     /\ (ChangeStep /\ lastChange' = "reset") => stateUpdate' = <<initialStateRef>>
     /\ (ValidateStep /\ lastChange = "reset") => ValidatedAs(initialStateRef)]_vars

\* C9: an edit and a reset leave formErrors, rendered and queued, as they
\* were, and with them isInvalid and error of every field; the rendered
\* formErrors only ever changes to what a validate() queued.
C9_OnlyValidateChangesErrors ==
  [][/\ ChangeStep =>
          /\ formErrors' = formErrors
          /\ errorsUpdate' = errorsUpdate
          /\ \A key \in KeySet :
               isInvalid(key)' = isInvalid(key) /\ fieldError(key)' = fieldError(key)
     /\ (errorsUpdate' # errorsUpdate /\ errorsUpdate' # <<>>) => ValidateStep
     /\ formErrors' # formErrors =>
          (errorsUpdate # <<>> /\ formErrors' = errorsUpdate[1])]_vars

\* A field that a validate() marked invalid still reads invalid with its
\* message after it was edited to a value its constraint accepts.
C9_Witness ==
  /\ isInvalid("phone")
  /\ fieldError("phone") = validationErrors.NonEmptyString
  /\ is(Phone, state.phone)
  /\ validated = <<>>
  /\ lastChange = "edit"

\* C10: two validate() calls with no edit or reset between them set the same
\* formErrors and have the same outcome.
C10_ValidateIdempotent ==
  [][(ValidateStep /\ validated # <<>>) => validated' = validated]_vars

\* The fields validate() would mark invalid have no mounted element.
InvalidUnmounted == \A key \in Rejected(state) : ~Mounted(key)

\* C11: when the elements of the invalid fields are not mounted, for one
\* invalid field as for several, validate() raises no error, sets formErrors
\* to the projected failures and returns the Either of the decode, as it
\* does with the elements mounted.
C11_FocusIsFireAndForget ==
  [][(ValidateStep /\ InvalidUnmounted) =>
       /\ returned' # TypeError
       /\ returned' = decodeForm(state)
       /\ errorsUpdate' = <<errorsToFormErrors(decodeForm(state).left)>>]_vars

\* The field of S whose element comes first in the document.
FirstInDocument(S) ==
  refs[CHOOSE i \in 1..Len(refs) : refs[i] \in S /\ \A j \in 1..(i - 1) : refs[j] \notin S]

\* C12: a validate() that fails while every invalid field has a mounted
\* element requests focus on one element, the one of the invalid field that
\* comes first in the document, whatever the order of the keys in formErrors
\* and in the schema; a validate() that succeeds requests no focus.
C12_FocusFirstInDocument ==
  [][ValidateStep =>
       /\ (validated'[2] = "Left" /\ \A key \in Rejected(state) : Mounted(key)) =>
            /\ focused' = FirstInDocument(Rejected(state))
            /\ returned' = decodeForm(state)
       /\ validated'[2] = "Right" => focused' = "none"]_vars

\* The inputs are mounted in the reverse of the schema's order and a
\* validate() that found several fields invalid focused phone, the last key
\* of its formErrors.
C12_Witness ==
  /\ refs = Reverse(Keys)
  /\ validated # <<>>
  /\ Len(validated[1]) >= 2
  /\ validated[1][Len(validated[1])].key = "phone"
  /\ focused = "phone"

\* C13 as stated: what a failed validate() hands back to its caller is the
\* FormErrors mapping it stored in formErrors, not the list of failures.
C13_ReturnsFormErrors ==
  [][(ValidateStep /\ returned'.tag = "Left") => returned'.left = errorsUpdate'[1]]_vars

\* C13 amended: a failed validate() that returns hands back the Either of
\* the decode, the Left of the whole list of failures; the FormErrors
\* mapping is projected from that list and stored in formErrors only.
C13_ReturnsDecodeResult ==
  [][(ValidateStep /\ returned'.tag = "Left") =>
       /\ returned' = decodeForm(state)
       /\ errorsUpdate' = <<errorsToFormErrors(returned'.left)>>
       /\ Len(returned'.left) >= Len(errorsUpdate'[1])
       /\ returned'.left # errorsUpdate'[1]]_vars

\* A failed validate() returned more failures than formErrors has keys.
C13_Witness ==
  /\ validated # <<>>
  /\ returned.tag = "Left"
  /\ errorsUpdate # <<>>
  /\ Len(returned.left) > Len(errorsUpdate[1])

\* The messages of the catalog.
Catalog == {validationErrors[name] : name \in DOMAIN validationErrors}

\* C14: in every state of the controller and for every field of the schema,
\* isInvalid is true exactly when the field is a key of formErrors, error is
\* a message of the catalog when isInvalid is true and the empty string
\* when it is false.
C14_FieldsReflectFormErrors ==
  \A key \in KeySet :
    /\ isInvalid(key) <=> key \in KeysOf(formErrors)
    /\ isInvalid(key) => fieldError(key) \in Catalog
    /\ ~isInvalid(key) => fieldError(key) = ""

\* Rendered after a validate() that rejected phone for its format only.
C14_Witness ==
  /\ isInvalid("phone")
  /\ fieldError("phone") = validationErrors.PhoneString
  /\ ~isInvalid("company")
  /\ fieldError("company") = ""
  /\ ~isInvalid("sendNewsletter")

\* createProps was applied to the probed codec.
ProbedProps == probe.codec # "SignUpForm" /\ probe.props # NoProps

\* C15 as stated: the dispatch is structural, a field gets text-input props
\* exactly when its constraint is string-based, checkbox props when it is
\* boolean, and empty props otherwise.
C15_StructuralDispatch ==
  ProbedProps =>
    /\ StringBased(Codecs[probe.codec]) <=> probe.props.kind = "text"
    /\ Codecs[probe.codec] = boolean <=> probe.props.kind = "checkbox"

\* C15 amended: a field gets text-input props (value, onChange, onKeyPress,
\* ref) exactly when its constraint is one of the four members of
\* TextInputField, String64, Email, Password and Phone; checkbox props
\* (isChecked, onChange, ref) exactly when it is boolean; and the empty
\* props for every other constraint, the other string-based ones included.
\* Every field of the sign-up schema gets one of the first two.
C15_DispatchByMembership ==
  ProbedProps =>
    /\ probe.props.kind = "text" <=>
         Codecs[probe.codec] \in {String64, Email, Password, Phone}
    /\ probe.props.kind = "checkbox" <=> Codecs[probe.codec] = boolean
    /\ probe.props.kind = "none" <=>
         Codecs[probe.codec] \notin {String64, Email, Password, Phone, boolean}
    /\ probe.props.kind = "text" =>
         probe.props.names = {"value", "onChange", "onKeyPress", "ref"}
    /\ probe.props.kind = "checkbox" =>
         probe.props.names = {"isChecked", "onChange", "ref"}
    /\ probe.props.kind = "none" => probe.props.names = {}
    /\ \A key \in KeySet :
         /\ createProps(key) = "text" <=> key # "sendNewsletter"
         /\ createProps(key) = "checkbox" <=> key = "sendNewsletter"

\* String512 accepts strings only and its field gets the empty props.
C15_Witness ==
  /\ ProbedProps
  /\ probe.codec = "String512"
  /\ StringBased(String512)
  /\ probe.props = [kind |-> "none", names |-> {}]

\* The leaves of the composed types in the flat order of their declaration:
\* TypeString, NonEmptyString, TrimmedString, the maximal length, then the
\* minimal length or the format.
FlatOrder ==
  [String64 |-> <<"TypeString", "NonEmptyString", "TrimmedString", "Max64String">>,
   Email |-> <<"TypeString", "NonEmptyString", "TrimmedString", "Max64String",
               "EmailString">>,
   Password |-> <<"TypeString", "NonEmptyString", "TrimmedString", "Max512String",
                  "Min4String">>,
   Phone |-> <<"TypeString", "NonEmptyString", "TrimmedString", "PhoneString">>]

\* The places of the leaves of an order that reject u.
Failing(order, u) == {i \in 1..Len(order) : ~LeafIs(order[i], u)}

\* The smallest of a nonempty set of numbers.
Min(S) == CHOOSE i \in S : \A j \in S : i <= j

\* C16: the nested String64, Email, Password and Phone accept a value
\* exactly when every leaf of the flat order accepts it, and the message
\* they report for a rejected value, the one of their first failure, is the
\* message of the first leaf of the flat order that rejects it.
C16_NestedAsFlat ==
  (ProbedCodec /\ probe.codec \in DOMAIN FlatOrder) =>
    LET failing == Failing(FlatOrder[probe.codec], probe.u)
    IN /\ probe.result.tag = "Right" <=> failing = {}
       /\ probe.result.tag = "Left" <=> failing # {}
       /\ failing # {} =>
            probe.result.left[1].message =
              LeafMessage(FlatOrder[probe.codec][Min(failing)])

\* Email rejected an untrimmed, too long string that is no email address:
\* three leaves failed, on both levels of the nesting.
C16_Witness ==
  /\ ProbedCodec
  /\ probe.codec = "Email"
  /\ probe.u = Str(Max64 + 1, 1, "plain")
  /\ Len(probe.result.left) = 3
  /\ probe.result.left[1].message = validationErrors.TrimmedString

C18_ValidateKeepsValue ==
  [][ValidateStep =>
       /\ state' = state
       /\ stateUpdate' = stateUpdate
       /\ CurrentValue' = CurrentValue
       /\ initialStateRef' = initialStateRef
       /\ returned'.tag = "Right" => returned'.right = state]_vars

\* A validate() succeeded while an edit was queued, and the edit is still
\* queued.
C18_Witness ==
  /\ validated # <<>>
  /\ returned.tag = "Right"
  /\ returned.right = state
  /\ stateUpdate # <<>>
  /\ stateUpdate[1] # state

====
